---- MODULE Spec2Model ----
(***************************************************************************)
(* Model of Raytracer (ray_tracing__advance/raytrace.cpp): the geometry    *)
(* descriptors, the bottom/top level acceleration structure builds, the    *)
(* ray tracing descriptor set, the pipeline and its shader groups, the     *)
(* shader binding table and the per-frame trace recording.                 *)
(*                                                                         *)
(* Vulkan handles are modelled as integers: 0 is VK_NULL_HANDLE and the    *)
(* k-th object of a kind created by the device has handle k.               *)
(***************************************************************************)
EXTENDS Integers, Sequences, FiniteSets, TLC

VARIABLES
  models,               \* caller: std::vector<ObjModel>
  instances,            \* caller: std::vector<ObjInstance>
  implicitObj,          \* caller: ImplInst (objImpl size, blasId, transform)
  frame,                \* caller: arguments of the latest raytrace call
  cmdBuf,               \* caller: commands that call recorded in its command buffer
  m_rtProperties,       \* shaderGroupHandleSize reported by the device
  m_blas,               \* m_rtBuilder: what buildBlas was handed
  m_tlasInstances,      \* m_rtBuilder: what buildTlas was handed
  m_tlas,               \* m_rtBuilder: handle of the TLAS
  m_rtDescSetLayoutBind,\* bindings declared on the descriptor-set helper
  m_rtDescSet,          \* [set, pool, layout] handles
  rtDescSetBindings,    \* contents written to the set m_rtDescSet.set
  m_rtShaderGroups,     \* std::vector<vk::RayTracingShaderGroupCreateInfoKHR>
  m_rtPipeline,         \* handle of the pipeline
  m_rtPipelineLayout,   \* handle of the pipeline layout
  rtPipelineInfo,       \* what the pipeline m_rtPipeline was created from
  m_rtSBTBuffer,        \* [buffer, data]
  m_rtPushConstants     \* RtPushConstants

sceneVars == <<models, instances, implicitObj>>
frameVars == <<frame, cmdBuf>>
asVars    == <<m_blas, m_tlasInstances, m_tlas>>
descVars  == <<m_rtDescSetLayoutBind, m_rtDescSet, rtDescSetBindings>>
pipeVars  == <<m_rtShaderGroups, m_rtPipeline, m_rtPipelineLayout, rtPipelineInfo>>
vars == <<models, instances, implicitObj, frame, cmdBuf, m_rtProperties,
          m_blas, m_tlasInstances, m_tlas, m_rtDescSetLayoutBind, m_rtDescSet,
          rtDescSetBindings, m_rtShaderGroups, m_rtPipeline, m_rtPipelineLayout,
          rtPipelineInfo, m_rtSBTBuffer, m_rtPushConstants>>

----------------------------------------------------------------------------
(* Bounds *)

\* most mesh batches in a scene
MaxModels == 2
\* most mesh instances in a scene
MaxInstances == 2
\* most device objects (TLAS, descriptor sets, pipelines, SBT buffers) created in a run
MaxObjects == 5

\* index counts of a mesh batch: one triangle, two triangles, and a count that
\* is not a multiple of 3
NbIndices == {3, 4, 6}
\* sizes of the implicit-primitive set
ImplicitSizes == {0, 2}
\* shaderGroupHandleSize values a device may report
HandleSizes == {4, 32}
\* output image views the caller may pass
ImageViews == {"imageA", "imageB"}

NULL_HANDLE == 0
\* VK_SHADER_UNUSED_KHR (~0U), no stage index
UNUSED == -1

SeqsUpTo(S, n) == UNION {[1..k -> S] : k \in 0..n}

----------------------------------------------------------------------------
(* Caller-owned scene *)

\* each batch has its own vertex and index buffer
ObjModels    == {[nbIndices |-> n, vertexBuffer |-> <<"vb", n>>, indexBuffer |-> <<"ib", n>>] :
                   n \in NbIndices}
ObjInstances == [objIndex : 0..(MaxModels - 1), transform : {"T"}]

\* vk::Device::getBufferAddress: an injective, device-chosen address
getBufferAddress(buffer) == <<"addr", buffer>>

----------------------------------------------------------------------------
(* Geometry descriptors *)

objectToVkGeometryKHR(model) ==
  [geometryType      |-> "eTriangles",
   indexType         |-> "eUint32",
   vertexFormat      |-> "eR32G32B32Sfloat",
   maxPrimitiveCount |-> model.nbIndices \div 3,
   allowsTransforms  |-> FALSE,
   vertexData        |-> getBufferAddress(model.vertexBuffer),
   indexData         |-> getBufferAddress(model.indexBuffer),
   flags             |-> "eNoDuplicateAnyHitInvocation",
   primitiveCount    |-> model.nbIndices \div 3]

implicitToVkGeometryKHR(impl) ==
  [geometryType      |-> "eAabbs",
   indexType         |-> "eNoneKHR",
   vertexFormat      |-> "eUndefined",
   maxPrimitiveCount |-> impl.objImpl,
   allowsTransforms  |-> FALSE,
   aabbData          |-> getBufferAddress("implBuf"),
   flags             |-> "eNoDuplicateAnyHitInvocation",
   primitiveCount    |-> impl.objImpl]

----------------------------------------------------------------------------
(* Acceleration structures *)

\* the vector allBlas that createBottomLevelAS hands to buildBlas
AllBlas(ms, impl) ==
  [i \in 1..Len(ms) |-> objectToVkGeometryKHR(ms[i])]
    \o (IF impl.objImpl # 0 THEN <<implicitToVkGeometryKHR(impl)>> ELSE <<>>)

\* mutant: blasId recorded outside the non-empty test, from the mesh count
ImplicitAfterBlasUnguarded(ms, impl) ==
  [impl EXCEPT !.blasId = Len(ms) - 1]

\* mutant: blasId taken as the size of allBlas, one past the appended BLAS
ImplicitAfterBlasOffByOne(ms, impl) ==
  IF impl.objImpl # 0
    THEN [impl EXCEPT !.blasId = Len(AllBlas(ms, impl))]
    ELSE impl

\* implicitObj after createBottomLevelAS: blasId is written only for a non-empty set
ImplicitAfterBlas(ms, impl) ==
  IF impl.objImpl # 0
    THEN [impl EXCEPT !.blasId = Len(AllBlas(ms, impl)) - 1]
    ELSE impl

createBottomLevelAS ==
  /\ m_blas' = [geometries |-> AllBlas(models, implicitObj),
                flags |-> {"ePreferFastTrace", "eAllowCompaction"}]
  /\ implicitObj' = ImplicitAfterBlas(models, implicitObj)
  /\ UNCHANGED <<models, instances, frameVars, m_rtProperties, m_tlasInstances,
                 m_tlas, descVars, pipeVars, m_rtSBTBuffer, m_rtPushConstants>>

\* the instance record of mesh instance i (0-based, as in the loop)
MeshInstance(insts, i) ==
  [transform  |-> insts[i + 1].transform,
   instanceId |-> i,
   blasId     |-> insts[i + 1].objIndex,
   hitGroupId |-> 0,
   flags      |-> "TRIANGLE_FACING_CULL_DISABLE"]

\* mutant: the implicit aggregate declared with the triangle hit group
ImplicitInstanceHitGroup0(impl) ==
  [transform  |-> impl.transform,
   instanceId |-> impl.blasId,
   blasId     |-> impl.blasId,
   hitGroupId |-> 0,
   flags      |-> "TRIANGLE_FACING_CULL_DISABLE"]

\* the synthetic record of the BLAS holding all implicit primitives
ImplicitInstance(impl) ==
  [transform  |-> impl.transform,
   instanceId |-> impl.blasId,
   blasId     |-> impl.blasId,
   hitGroupId |-> 1,
   flags      |-> "TRIANGLE_FACING_CULL_DISABLE"]

\* the vector tlas that createTopLevelAS hands to buildTlas
TlasInstances(insts, impl) ==
  [k \in 1..Len(insts) |-> MeshInstance(insts, k - 1)]
    \o (IF impl.objImpl # 0 THEN <<ImplicitInstance(impl)>> ELSE <<>>)

ObjectsCreated ==
  m_tlas + m_rtDescSet.set + m_rtPipeline + m_rtSBTBuffer.buffer

createTopLevelAS ==
  /\ ObjectsCreated < MaxObjects
  /\ m_tlasInstances' = [instances |-> TlasInstances(instances, implicitObj),
                         flags |-> {"ePreferFastTrace"}]
  /\ m_tlas' = m_tlas + 1
  /\ UNCHANGED <<sceneVars, frameVars, m_rtProperties, m_blas, descVars, pipeVars,
                 m_rtSBTBuffer, m_rtPushConstants>>

----------------------------------------------------------------------------
(* Ray tracing descriptor set *)

\* the two addBinding calls of createRtDescriptorSet
DeclaredBindings ==
  << [binding |-> 0, type |-> "eAccelerationStructureKHR", count |-> 1,
      stages |-> {"eRaygenKHR", "eClosestHitKHR"}],
     [binding |-> 1, type |-> "eStorageImage", count |-> 1,
      stages |-> {"eRaygenKHR"}] >>

\* the writes of createRtDescriptorSet: binding 0 is the builder's current TLAS
CreatedBindings(tlas, outputImage) == [b0 |-> tlas, b1 |-> outputImage]

createRtDescriptorSet(outputImage) ==
  /\ ObjectsCreated < MaxObjects
  /\ m_rtDescSetLayoutBind' = m_rtDescSetLayoutBind \o DeclaredBindings
  /\ m_rtDescSet' = [set    |-> m_rtDescSet.set + 1,
                     pool   |-> m_rtDescSet.pool + 1,
                     layout |-> m_rtDescSet.layout + 1]
  /\ rtDescSetBindings' = CreatedBindings(m_tlas, outputImage)
  /\ UNCHANGED <<sceneVars, frameVars, m_rtProperties, asVars, pipeVars,
                 m_rtSBTBuffer, m_rtPushConstants>>

\* mutant: the update redoes both writes of createRtDescriptorSet
UpdatedBindingsBoth(bindings, outputImage) == [b0 |-> m_tlas, b1 |-> outputImage]

\* the single write of updateRtDescriptorSet: dstBinding 1, the storage image
UpdatedBindings(bindings, outputImage) == [bindings EXCEPT !.b1 = outputImage]

\* vkUpdateDescriptorSets needs a valid dstSet
updateRtDescriptorSet(outputImage) ==
  /\ m_rtDescSet.set # NULL_HANDLE
  /\ rtDescSetBindings' = UpdatedBindings(rtDescSetBindings, outputImage)
  /\ UNCHANGED <<sceneVars, frameVars, m_rtProperties, asVars, m_rtDescSetLayoutBind,
                 m_rtDescSet, pipeVars, m_rtSBTBuffer, m_rtPushConstants>>

----------------------------------------------------------------------------
(* Pipeline *)

Stage(stage, module) == [stage |-> stage, module |-> module]

Group(type) == [type |-> type, generalShader |-> UNUSED, closestHitShader |-> UNUSED,
                anyHitShader |-> UNUSED, intersectionShader |-> UNUSED]

\* index of the stage pushed last: static_cast<uint32_t>(stages.size() - 1)
LastStage(stages) == Len(stages) - 1

MaxRecursionDepth == 2

\* The local vector stages and the member m_rtShaderGroups after the
\* push_back calls of createRtPipeline, starting from the member's current value.
DeclareShaders(groups0) ==
  LET s1  == <<Stage("eRaygenKHR", "raytrace.rgen")>>
      rg  == [Group("eGeneral") EXCEPT !.generalShader = LastStage(s1)]
      g1  == Append(groups0, rg)
      s2  == Append(s1, Stage("eMissKHR", "raytrace.rmiss"))
      mg  == [Group("eGeneral") EXCEPT !.generalShader = LastStage(s2)]
      g2  == Append(g1, mg)
      s3  == Append(s2, Stage("eMissKHR", "raytraceShadow.rmiss"))
      mg2 == [mg EXCEPT !.generalShader = LastStage(s3)]
      g3  == Append(g2, mg2)
      s4  == Append(s3, Stage("eClosestHitKHR", "raytrace.rchit"))
      hgA == [Group("eTrianglesHitGroup") EXCEPT !.closestHitShader = LastStage(s4)]
      s5  == Append(s4, Stage("eAnyHitKHR", "raytrace.rahit"))
      hgB == [hgA EXCEPT !.anyHitShader = LastStage(s5)]
      g4  == Append(g3, hgB)
      s6  == Append(s5, Stage("eClosestHitKHR", "raytrace2.rchit"))
      pgA == [Group("eProceduralHitGroup") EXCEPT !.closestHitShader = LastStage(s6)]
      s7  == Append(s6, Stage("eAnyHitKHR", "raytrace2.rahit"))
      pgB == [pgA EXCEPT !.anyHitShader = LastStage(s7)]
      s8  == Append(s7, Stage("eIntersectionKHR", "raytrace.rint"))
      pgC == [pgB EXCEPT !.intersectionShader = LastStage(s8)]
      g5  == Append(g4, pgC)
      s9  == Append(s8, Stage("eCallableKHR", "light_point.rcall"))
      c0  == [Group("eGeneral") EXCEPT !.generalShader = LastStage(s9)]
      g6  == Append(g5, c0)
      s10 == Append(s9, Stage("eCallableKHR", "light_spot.rcall"))
      c1  == [c0 EXCEPT !.generalShader = LastStage(s10)]
      g7  == Append(g6, c1)
      s11 == Append(s10, Stage("eCallableKHR", "light_inf.rcall"))
      c2  == [c1 EXCEPT !.generalShader = LastStage(s11)]
      g8  == Append(g7, c2)
  IN  [stages |-> s11, groups |-> g8]

PushConstantStages == {"eRaygenKHR", "eClosestHitKHR", "eMissKHR", "eCallableKHR"}

createRtPipeline(sceneDescLayout) ==
  LET d == DeclareShaders(m_rtShaderGroups) IN
  /\ ObjectsCreated < MaxObjects
  /\ m_rtShaderGroups' = d.groups
  /\ m_rtPipelineLayout' = m_rtPipelineLayout + 1
  /\ m_rtPipeline' = m_rtPipeline + 1
  /\ rtPipelineInfo' =
       [stages            |-> d.stages,
        groups            |-> d.groups,
        maxRecursionDepth |-> MaxRecursionDepth,
        layout            |-> m_rtPipelineLayout + 1,
        setLayouts        |-> <<m_rtDescSet.layout, sceneDescLayout>>,
        pushConstant      |-> [stages |-> PushConstantStages, offset |-> 0]]
  /\ UNCHANGED <<sceneVars, frameVars, m_rtProperties, asVars, descVars,
                 m_rtSBTBuffer, m_rtPushConstants>>

----------------------------------------------------------------------------
(* Shader binding table *)

\* byte k (0-based) of the opaque handle the device reports for group g of a pipeline
HandleByte(pipeline, g, k) == <<pipeline, g, k>>

\* the handle of group g: shaderGroupHandleSize bytes
ShaderGroupHandle(pipeline, g, handleSize) ==
  [k \in 1..handleSize |-> HandleByte(pipeline, g, k - 1)]

\* vkGetRayTracingShaderGroupHandlesKHR(pipeline, firstGroup, groupCount, dataSize, pData):
\* the device writes the handles of groups firstGroup.. one after the other into pData
getRayTracingShaderGroupHandlesKHR(pipeline, firstGroup, groupCount, storage, handleSize) ==
  [b \in 1..Len(storage) |->
     IF b <= groupCount * handleSize
       THEN HandleByte(pipeline, firstGroup + ((b - 1) \div handleSize),
                       (b - 1) % handleSize)
       ELSE storage[b]]

\* mutant: the table sized for the three groups the source comment speaks of
SbtSizeThreeGroups(groupCount, groupHandleSize) == 3 * groupHandleSize

\* uint32_t sbtSize = groupCount * groupHandleSize
SbtSize(groupCount, groupHandleSize) == groupCount * groupHandleSize

\* the bytes uploaded by createRtShaderBindingTable
ShaderHandleStorage(pipeline, groups, groupHandleSize) ==
  LET groupCount == Len(groups)
      sbtSize    == SbtSize(groupCount, groupHandleSize)
      zeroed     == [b \in 1..sbtSize |-> 0]
  IN  getRayTracingShaderGroupHandlesKHR(pipeline, 0, groupCount, zeroed, groupHandleSize)

\* mutant: the table written back into the buffer already held
NewSbtBufferReused(old, data) ==
  [buffer |-> IF old.buffer = NULL_HANDLE THEN 1 ELSE old.buffer,
   data |-> data, usage |-> "eRayTracingKHR"]

\* m_alloc->createBuffer returns a buffer the device has not handed out before
NewSbtBuffer(old, data) ==
  [buffer |-> old.buffer + 1, data |-> data, usage |-> "eRayTracingKHR"]

\* the handle query needs a valid pipeline
createRtShaderBindingTable ==
  /\ m_rtPipeline # NULL_HANDLE
  /\ ObjectsCreated < MaxObjects
  /\ m_rtSBTBuffer' =
       NewSbtBuffer(m_rtSBTBuffer,
                    ShaderHandleStorage(m_rtPipeline, m_rtShaderGroups,
                                        m_rtProperties.shaderGroupHandleSize))
  /\ UNCHANGED <<sceneVars, frameVars, m_rtProperties, asVars, descVars, pipeVars,
                 m_rtPushConstants>>

----------------------------------------------------------------------------
(* Trace recording *)

\* the eight assignments that open raytrace
CopyPushConstants(clearColor, sceneConstants) ==
  [clearColor           |-> clearColor,
   lightPosition        |-> sceneConstants.lightPosition,
   lightIntensity       |-> sceneConstants.lightIntensity,
   lightDirection       |-> sceneConstants.lightDirection,
   lightSpotCutoff      |-> sceneConstants.lightSpotCutoff,
   lightSpotOuterCutoff |-> sceneConstants.lightSpotOuterCutoff,
   lightType            |-> sceneConstants.lightType,
   frame                |-> sceneConstants.frame]

\* mutant: the push recorded before the member is refreshed
PushedConstantsStale(before, copied) == before

\* the value handed to cmdBuf.pushConstants: the member after the copy
PushedConstants(before, copied) == copied

Region(buffer, offset, stride, size) ==
  [buffer |-> buffer, offset |-> offset, stride |-> stride, size |-> size]

\* mutant: the callable region placed from the end of the table (its last three groups)
SbtRegionsFromEnd(buffer, progSize, groupCount) ==
  LET sbtSize == groupCount * progSize
  IN  [raygen   |-> Region(buffer, 0 * progSize, progSize, sbtSize),
       miss     |-> Region(buffer, 1 * progSize, progSize, sbtSize),
       hit      |-> Region(buffer, 3 * progSize, progSize, sbtSize),
       callable |-> Region(buffer, (groupCount - 3) * progSize, progSize, sbtSize)]

\* mutant: the callable region sized to the three callable groups
SbtRegionsCallableSpan(buffer, progSize, groupCount) ==
  LET sbtSize == groupCount * progSize
  IN  [raygen   |-> Region(buffer, 0 * progSize, progSize, sbtSize),
       miss     |-> Region(buffer, 1 * progSize, progSize, sbtSize),
       hit      |-> Region(buffer, 3 * progSize, progSize, sbtSize),
       callable |-> Region(buffer, 5 * progSize, progSize, 3 * progSize)]

\* the four vk::StridedBufferRegionKHR of raytrace
SbtRegions(buffer, progSize, groupCount) ==
  LET rayGenOffset        == 0 * progSize
      missOffset          == 1 * progSize
      hitGroupOffset      == 3 * progSize
      callableGroupOffset == 5 * progSize
      sbtSize             == groupCount * progSize
  IN  [raygen   |-> Region(buffer, rayGenOffset, progSize, sbtSize),
       miss     |-> Region(buffer, missOffset, progSize, sbtSize),
       hit      |-> Region(buffer, hitGroupOffset, progSize, sbtSize),
       callable |-> Region(buffer, callableGroupOffset, progSize, sbtSize)]

\* the commands one raytrace call records, in order
RecordedCommands(pipeline, layout, rtDescSet, sbt, groups, progSize, pushed, f) ==
  << [cmd |-> "beginLabel", label |-> "Ray trace"],
     [cmd |-> "bindPipeline", bindPoint |-> "eRayTracingKHR", pipeline |-> pipeline],
     [cmd |-> "bindDescriptorSets", bindPoint |-> "eRayTracingKHR", layout |-> layout,
      firstSet |-> 0, sets |-> <<rtDescSet, f.sceneDescSet>>],
     [cmd |-> "pushConstants", layout |-> layout, stages |-> PushConstantStages,
      offset |-> 0, values |-> pushed],
     [cmd |-> "traceRaysKHR", regions |-> SbtRegions(sbt.buffer, progSize, Len(groups)),
      width |-> f.size.width, height |-> f.size.height, depth |-> 1],
     [cmd |-> "endLabel"] >>

\* The caller begins a command buffer for frame f and calls
\* raytrace(cmdBuf, f.clearColor, f.sceneDescSet, f.size, f.sceneConstants).
raytrace(f) ==
  LET copied == CopyPushConstants(f.clearColor, f.sceneConstants) IN
  /\ frame' = f
  /\ m_rtPushConstants' = copied
  /\ cmdBuf' =
       RecordedCommands(m_rtPipeline, m_rtPipelineLayout, m_rtDescSet.set,
                        m_rtSBTBuffer, m_rtShaderGroups,
                        m_rtProperties.shaderGroupHandleSize,
                        PushedConstants(m_rtPushConstants, copied), f)
  /\ UNCHANGED <<sceneVars, m_rtProperties, asVars, descVars, pipeVars, m_rtSBTBuffer>>

----------------------------------------------------------------------------
(* Caller *)

SceneConstants(base) ==
  [lightPosition |-> <<"pos", base>>, lightIntensity |-> <<"int", base>>,
   lightDirection |-> <<"dir", base>>, lightSpotCutoff |-> <<"cut", base>>,
   lightSpotOuterCutoff |-> <<"out", base>>, lightType |-> <<"type", base>>,
   frame |-> <<"frame", base>>]

\* no raytrace call yet
NoFrame == [clearColor |-> <<"clear", 0>>, sceneConstants |-> SceneConstants(0),
            size |-> [width |-> 0, height |-> 0], sceneDescSet |-> "none"]

\* the frames the caller may ask for: clear colour, scene constants, extent, scene set
Frames ==
  { [clearColor |-> <<"clear", 1>>, sceneConstants |-> SceneConstants(1),
     size |-> [width |-> 2, height |-> 1], sceneDescSet |-> "sceneDescSet"],
    [clearColor |-> <<"clear", 2>>, sceneConstants |-> SceneConstants(2),
     size |-> [width |-> 1, height |-> 3], sceneDescSet |-> "sceneDescSet"] }

\* instances refer to loaded models
ValidScene(ms, insts) == \A i \in 1..Len(insts) : insts[i].objIndex < Len(ms)

Scenes ==
  {sc \in [models : SeqsUpTo(ObjModels, MaxModels),
           instances : SeqsUpTo(ObjInstances, MaxInstances),
           objImpl : ImplicitSizes] : ValidScene(sc.models, sc.instances)}

\* one mesh scene, with and without implicit primitives
SampleScenes ==
  {sc \in Scenes : /\ Len(sc.models) = 1 /\ sc.models[1].nbIndices = 6
                   /\ Len(sc.instances) = 1}

----------------------------------------------------------------------------
(* Specifications *)

\* Raytracer after construction and setup(), for a scene of the set given; blasId
\* has no initialiser in this file, so its first value is any of blasIds
InitFor(scenes, blasIds) ==
  /\ \E sc \in scenes :
       /\ models = sc.models
       /\ instances = sc.instances
       /\ \E id \in blasIds :
            implicitObj = [objImpl |-> sc.objImpl, blasId |-> id, transform |-> "TI"]
  /\ frame = NoFrame
  /\ cmdBuf = <<>>
  /\ \E h \in HandleSizes : m_rtProperties = [shaderGroupHandleSize |-> h]
  /\ m_blas = [geometries |-> <<>>, flags |-> {}]
  /\ m_tlasInstances = [instances |-> <<>>, flags |-> {}]
  /\ m_tlas = NULL_HANDLE
  /\ m_rtDescSetLayoutBind = <<>>
  /\ m_rtDescSet = [set |-> NULL_HANDLE, pool |-> NULL_HANDLE, layout |-> NULL_HANDLE]
  /\ rtDescSetBindings = [b0 |-> NULL_HANDLE, b1 |-> "none"]
  /\ m_rtShaderGroups = <<>>
  /\ m_rtPipeline = NULL_HANDLE
  /\ m_rtPipelineLayout = NULL_HANDLE
  /\ rtPipelineInfo = [stages |-> <<>>, groups |-> <<>>]
  /\ m_rtSBTBuffer = [buffer |-> NULL_HANDLE, data |-> <<>>, usage |-> "none"]
  /\ m_rtPushConstants = CopyPushConstants(NoFrame.clearColor, NoFrame.sceneConstants)

Init == InitFor(SampleScenes, {0})

Next ==
  \/ createBottomLevelAS
  \/ createTopLevelAS
  \/ \E img \in ImageViews : createRtDescriptorSet(img)
  \/ \E img \in ImageViews : updateRtDescriptorSet(img)
  \/ createRtPipeline("sceneDescLayout")
  \/ createRtShaderBindingTable
  \/ \E f \in Frames : raytrace(f)

Spec == Init /\ [][Next]_vars

\* the acceleration-structure builds alone, over every scene within the bounds
InitAS == InitFor(Scenes, 0..MaxModels)

NextAS ==
  \/ createBottomLevelAS
  \/ createTopLevelAS

SpecAS == InitAS /\ [][NextAS]_vars

\* the acceleration-structure builds and the pipeline build, over every scene
NextHit ==
  \/ createBottomLevelAS
  \/ createTopLevelAS
  \/ createRtPipeline("sceneDescLayout")

SpecHit == InitAS /\ [][NextHit]_vars

----------------------------------------------------------------------------
(* Claims *)

Built(blas) == blas.flags # {}
TraceCommand == SelectSeq(cmdBuf, LAMBDA c : c.cmd = "traceRaysKHR")[1]
HandleSize == m_rtProperties.shaderGroupHandleSize

\* the role a shader group plays, read off its type and the stage it points at
GroupRole(g, stages) ==
  IF g.type = "eTrianglesHitGroup" THEN "triangle-hit"
  ELSE IF g.type = "eProceduralHitGroup" /\ g.intersectionShader # UNUSED
    THEN "procedural-hit"
  ELSE IF g.type = "eGeneral" /\ g.generalShader # UNUSED
    THEN LET st == stages[g.generalShader + 1] IN
         IF st.stage = "eRaygenKHR" THEN "raygen"
         ELSE IF st.stage = "eMissKHR"
           THEN (IF st.module = "raytraceShadow.rmiss" THEN "shadow-miss" ELSE "miss")
         ELSE IF st.stage = "eCallableKHR" THEN "callable"
         ELSE "other"
  ELSE "other"

ExpectedRoles ==
  <<"raygen", "miss", "shadow-miss", "triangle-hit", "procedural-hit",
    "callable", "callable", "callable">>

\* C1: after every completed createRtPipeline call, a second or later one
\* included, m_rtShaderGroups holds exactly 8 groups in the order raygen, miss,
\* shadow-miss, triangle-hit, procedural-hit, callable x 3.
C1_GroupsExactlyEight ==
  m_rtPipeline # NULL_HANDLE =>
    /\ Len(m_rtShaderGroups) = Len(ExpectedRoles)
    /\ [i \in 1..Len(m_rtShaderGroups) |->
          GroupRole(m_rtShaderGroups[i], rtPipelineInfo.stages)] = ExpectedRoles

\* C2: the regions of every recorded trace command start at 0, 1, 3 and 5
\* handle sizes, each with a stride of one handle size, whatever the number of
\* groups and whatever was called before.
C2_RegionOffsets ==
  cmdBuf # <<>> =>
    LET r == TraceCommand.regions IN
    /\ HandleSize > 0
    /\ r.raygen.offset = 0
    /\ r.miss.offset = 1 * HandleSize
    /\ r.hit.offset = 3 * HandleSize
    /\ r.callable.offset = 5 * HandleSize
    /\ \A n \in {"raygen", "miss", "hit", "callable"} : r[n].stride = HandleSize

\* C2 witness: a trace recorded after a pipeline rebuild, with 16 groups declared
C2_Witness ==
  /\ cmdBuf # <<>>
  /\ HandleSize = 32
  /\ TraceCommand.regions.callable.size = 16 * 32
  /\ TraceCommand.regions.callable.offset = 160

\* C3: createTopLevelAS hands buildTlas one record per mesh instance, in
\* instance order and with hit group 0, followed, iff the implicit set is not
\* empty, by one record with hit group 1.
C3_TlasInstanceSequence ==
  m_tlas # NULL_HANDLE =>
    LET t == m_tlasInstances.instances
        N == Len(instances)
        M == implicitObj.objImpl
    IN  /\ Len(t) = (IF M = 0 THEN N ELSE N + 1)
        /\ \A i \in 1..N :
             /\ t[i].hitGroupId = 0
             /\ t[i].instanceId = i - 1
             /\ t[i].blasId = instances[i].objIndex
             /\ t[i].transform = instances[i].transform
        /\ M > 0 => t[N + 1].hitGroupId = 1 /\ t[N + 1].transform = implicitObj.transform

\* C3 witness: a TLAS of two mesh instances and the implicit aggregate
C3_Witness ==
  /\ m_tlas # NULL_HANDLE
  /\ Len(instances) = 2
  /\ implicitObj.objImpl > 0
  /\ Len(m_tlasInstances.instances) = 3
  /\ m_tlasInstances.instances[3].hitGroupId = 1

C4_BlasPerBatch ==
  Built(m_blas) =>
    LET g == m_blas.geometries
        B == Len(models)
        M == implicitObj.objImpl
    IN  /\ Len(g) = (IF M = 0 THEN B ELSE B + 1)
        /\ \A i \in 1..B :
             /\ g[i].geometryType = "eTriangles"
             /\ g[i].vertexData = getBufferAddress(models[i].vertexBuffer)
             /\ g[i].indexData = getBufferAddress(models[i].indexBuffer)
        /\ M > 0 => /\ g[B + 1].geometryType = "eAabbs"
                    /\ g[B + 1].primitiveCount = M
                    /\ implicitObj.blasId = B

\* C4: createBottomLevelAS builds one BLAS per batch in batch order and, iff
\* the implicit set is not empty, one aggregate BLAS after them whose position
\* B it records in implicitObj.blasId; with an empty set blasId is not written.
C4_BottomLevel ==
  /\ [](C4_BlasPerBatch)
  /\ [][implicitObj.objImpl = 0 => implicitObj'.blasId = implicitObj.blasId]_vars

\* C4 witness: two mesh BLAS followed by the implicit aggregate, recorded at index 2
C4_Witness ==
  /\ Built(m_blas)
  /\ Len(models) = 2
  /\ implicitObj.objImpl > 0
  /\ Len(m_blas.geometries) = 3
  /\ implicitObj.blasId = 2

\* C5: a batch whose index count is not a multiple of 3 makes
\* objectToVkGeometryKHR fail, so no BLAS build proceeds for such a scene.
C5_NonMultipleOf3Fails ==
  Built(m_blas) => \A i \in 1..Len(models) : models[i].nbIndices % 3 = 0

\* bytes [g*h, (g+1)*h) of a table
HandleAt(data, g, h) == SubSeq(data, g * h + 1, (g + 1) * h)

\* C6: every table createRtShaderBindingTable uploads has N*h bytes, N the
\* pipeline's group count and h the handle size, and reading bytes
\* [g*h, (g+1)*h) back yields the handle the device reports for group g.
C6_SbtRoundTrip ==
  [][m_rtSBTBuffer' # m_rtSBTBuffer =>
       LET data == m_rtSBTBuffer'.data
           N    == Len(rtPipelineInfo.groups)
       IN  /\ Len(data) = N * HandleSize
           /\ \A g \in 0..(N - 1) :
                HandleAt(data, g, HandleSize) =
                  ShaderGroupHandle(m_rtPipeline, g, HandleSize)]_vars

\* C6 witness: a table of 16 handles of 32 bytes, packed from the second pipeline
C6_Witness ==
  /\ m_rtSBTBuffer.buffer # NULL_HANDLE
  /\ Len(m_rtSBTBuffer.data) = 16 * 32
  /\ HandleAt(m_rtSBTBuffer.data, 15, 32) = ShaderGroupHandle(2, 15, 32)

\* C7: a pipeline rebuild (createRtPipeline, then createRtShaderBindingTable)
\* puts the table in a new SBT buffer and leaves the BLAS set and the TLAS as
\* they were; a TLAS rebuild leaves the pipeline, the shader groups and the
\* SBT buffer as they were.
C7_RebuildFrames ==
  [][/\ (m_rtPipeline' # m_rtPipeline \/ m_rtSBTBuffer' # m_rtSBTBuffer)
          => UNCHANGED <<m_blas, m_tlasInstances, m_tlas>>
     /\ createRtShaderBindingTable => m_rtSBTBuffer'.buffer # m_rtSBTBuffer.buffer
     /\ m_tlas' # m_tlas
          => UNCHANGED <<m_rtShaderGroups, m_rtPipeline, m_rtPipelineLayout,
                         rtPipelineInfo, m_rtSBTBuffer>>]_vars

\* C7 witness: BLAS and TLAS built, then the pipeline and its table rebuilt
C7_Witness ==
  /\ Built(m_blas)
  /\ m_tlas # NULL_HANDLE
  /\ m_rtPipeline = 2
  /\ m_rtSBTBuffer.buffer = 2
  /\ Len(m_rtSBTBuffer.data) = Len(m_rtShaderGroups) * HandleSize

BoundPipeline == SelectSeq(cmdBuf, LAMBDA c : c.cmd = "bindPipeline")[1].pipeline

\* a trace recorded with the current 8-group pipeline, its table and 32-byte handles
C8_Scenario ==
  /\ cmdBuf # <<>>
  /\ HandleSize = 32
  /\ m_rtPipeline # NULL_HANDLE
  /\ BoundPipeline = m_rtPipeline
  /\ Len(rtPipelineInfo.groups) = 8
  /\ m_rtSBTBuffer.buffer # NULL_HANDLE
  /\ TraceCommand.regions.callable.buffer = m_rtSBTBuffer.buffer

\* C8 as stated: 8 groups and 32-byte handles give a 256-byte table and a
\* callable region at offset 160 of size 96, three handle sizes.
C8_CallableRegionOriginal ==
  C8_Scenario =>
    /\ Len(m_rtSBTBuffer.data) = 256
    /\ TraceCommand.regions.callable.offset = 160
    /\ TraceCommand.regions.callable.size = 96

\* C8 amended: 8 groups and 32-byte handles give a 256-byte table and a
\* callable region at offset 160 of size 256; every region's size is the
\* whole table's, group count times handle size.
C8_CallableRegion ==
  /\ C8_Scenario =>
       /\ Len(m_rtSBTBuffer.data) = 256
       /\ TraceCommand.regions.callable.offset = 160
       /\ TraceCommand.regions.callable.size = 256
  /\ (cmdBuf # <<>> /\ BoundPipeline = m_rtPipeline) =>
       \A n \in {"raygen", "miss", "hit", "callable"} :
         TraceCommand.regions[n].size = Len(m_rtShaderGroups) * HandleSize

\* C8 witness: the scenario itself
C8_Witness ==
  /\ C8_Scenario
  /\ Len(m_rtSBTBuffer.data) = 256
  /\ TraceCommand.regions.callable.size = 256

\* C9: at every raytrace call made with a descriptor set whose binding 0 was
\* written, binding 0 refers to the TLAS of the most recent createTopLevelAS.
C9_Binding0TracksTlas ==
  [][((\E f \in Frames : raytrace(f))
        /\ m_rtDescSet.set # NULL_HANDLE
        /\ rtDescSetBindings.b0 # NULL_HANDLE)
       => rtDescSetBindings.b0 = m_tlas]_vars

DebugLabels == {"beginLabel", "endLabel"}
RtCommands == SelectSeq(cmdBuf, LAMBDA c : c.cmd \notin DebugLabels)
SceneConstantFields ==
  {"lightPosition", "lightIntensity", "lightDirection", "lightSpotCutoff",
   "lightSpotOuterCutoff", "lightType", "frame"}

\* what a recording says of the call's own arguments
C10_RecordedFromArguments ==
  cmdBuf # <<>> =>
    /\ [i \in 1..Len(RtCommands) |-> RtCommands[i].cmd] =
         <<"bindPipeline", "bindDescriptorSets", "pushConstants", "traceRaysKHR">>
    /\ \A i \in 1..Len(cmdBuf) :
         cmdBuf[i].cmd \in DebugLabels \cup
           {"bindPipeline", "bindDescriptorSets", "pushConstants", "traceRaysKHR"}
    /\ RtCommands[1].bindPoint = "eRayTracingKHR"
    /\ RtCommands[2].firstSet = 0
    /\ Len(RtCommands[2].sets) = 2
    /\ RtCommands[2].sets[2] = frame.sceneDescSet
    /\ RtCommands[3].stages = {"eRaygenKHR", "eClosestHitKHR", "eMissKHR", "eCallableKHR"}
    /\ RtCommands[3].values.clearColor = frame.clearColor
    /\ \A fld \in SceneConstantFields :
         RtCommands[3].values[fld] = frame.sceneConstants[fld]
    /\ RtCommands[4].width = frame.size.width
    /\ RtCommands[4].height = frame.size.height
    /\ RtCommands[4].depth = 1

\* C10: each raytrace call records, besides its debug label, exactly: bind the
\* ray tracing pipeline, bind the ray tracing set at index 0 and the caller's
\* scene set at index 1, push this call's clear colour and frame constants to
\* the raygen, closest-hit, miss and callable stages, trace width x height x 1;
\* nothing that submits or waits.
C10_RecordedSequence ==
  /\ [](C10_RecordedFromArguments)
  /\ [][cmdBuf' # cmdBuf =>
          /\ RtCommands'[1].pipeline = m_rtPipeline
          /\ RtCommands'[2].layout = m_rtPipelineLayout
          /\ RtCommands'[2].sets[1] = m_rtDescSet.set
          /\ RtCommands'[3].layout = m_rtPipelineLayout]_vars

\* C10 witness: a recording made with a pipeline and a descriptor set, for a
\* frame whose constants differ from those the member held before
C10_Witness ==
  /\ cmdBuf # <<>>
  /\ m_rtPipeline # NULL_HANDLE
  /\ RtCommands[1].pipeline = m_rtPipeline
  /\ RtCommands[2].sets = <<1, "sceneDescSet">>
  /\ RtCommands[3].values.frame = <<"frame", 2>>
  /\ RtCommands[4].width = 1 /\ RtCommands[4].height = 3

\* C11: updateRtDescriptorSet(image) writes binding 1 alone: binding 0, the
\* descriptor set handle, its layout, its pool and the declared bindings are
\* after the call what they were before it, and binding 1 is the image.
C11_UpdateWritesBinding1Only ==
  [][\A img \in ImageViews :
       updateRtDescriptorSet(img) =>
         /\ rtDescSetBindings'.b0 = rtDescSetBindings.b0
         /\ rtDescSetBindings'.b1 = img
         /\ m_rtDescSet' = m_rtDescSet
         /\ m_rtDescSetLayoutBind' = m_rtDescSetLayoutBind]_vars

\* C11 witness: a set whose image was written while binding 0 still names the
\* TLAS it was created with, the builder holding a later one
C11_Witness ==
  /\ m_rtDescSet.set = 1
  /\ rtDescSetBindings.b0 = 1
  /\ m_tlas = 2
  /\ rtDescSetBindings.b1 = "imageB"

\* index of the first hit group in the table: hitGroupOffset / progSize in raytrace
HitGroupBase == SbtRegions(NULL_HANDLE, 1, 0).hit.offset

\* the shader group a hit-group selector designates
HitGroupOf(selector) == m_rtShaderGroups[HitGroupBase + selector + 1]

\* record r names a BLAS of the built set, and its hit group suits that BLAS
DesignatesBuiltBlas(r, blas) ==
  /\ r.blasId \in 0..(Len(blas.geometries) - 1)
  /\ blas.geometries[r.blasId + 1].geometryType = "eAabbs" => r.hitGroupId = 1
  /\ blas.geometries[r.blasId + 1].geometryType = "eTriangles" => r.hitGroupId = 0

\* the hit group of record r, in a built pipeline, has an intersection routine
\* exactly when r is the procedural selector
HitGroupDeclared(r) ==
  /\ r.hitGroupId = 1 =>
       /\ HitGroupOf(1).type = "eProceduralHitGroup"
       /\ HitGroupOf(1).intersectionShader # UNUSED
       /\ rtPipelineInfo.stages[HitGroupOf(1).intersectionShader + 1].stage
            = "eIntersectionKHR"
  /\ r.hitGroupId = 0 =>
       /\ HitGroupOf(0).type = "eTrianglesHitGroup"
       /\ HitGroupOf(0).intersectionShader = UNUSED

\* C12 as stated: after any sequence of createBottomLevelAS, createTopLevelAS
\* and createRtPipeline calls every record handed to the TLAS build names a
\* BLAS of the most recent createBottomLevelAS, with hit group 1 for a
\* bounding-volume BLAS and 0 for a triangle BLAS.
C12_InstancesDesignateOriginal ==
  (m_tlas # NULL_HANDLE /\ Built(m_blas)) =>
    \A k \in 1..Len(m_tlasInstances.instances) :
      DesignatesBuiltBlas(m_tlasInstances.instances[k], m_blas)

\* C12 amended: every record of a createTopLevelAS call made once
\* createBottomLevelAS has built the scene's BLAS set names a BLAS of that set,
\* with hit group 1 for the bounding-volume BLAS and 0 for a triangle BLAS;
\* and in every built pipeline, rebuilt or not, selector 1 is the procedural
\* hit group with its intersection routine and selector 0 the triangle one.
C12_InstancesDesignate ==
  /\ [][(m_tlas' # m_tlas /\ Built(m_blas)) =>
          \A k \in 1..Len(m_tlasInstances'.instances) :
            DesignatesBuiltBlas(m_tlasInstances'.instances[k], m_blas)]_vars
  /\ [](m_rtPipeline # NULL_HANDLE =>
          \A k \in 1..Len(m_tlasInstances.instances) :
            HitGroupDeclared(m_tlasInstances.instances[k]))

\* C12 witness: two mesh BLAS and the aggregate built, then a TLAS whose last
\* record names the aggregate, and the pipeline rebuilt once
C12_Witness ==
  /\ Built(m_blas)
  /\ Len(models) = 2
  /\ implicitObj.objImpl > 0
  /\ m_tlas # NULL_HANDLE
  /\ Len(m_tlasInstances.instances) = Len(instances) + 1
  /\ m_tlasInstances.instances[Len(instances) + 1].blasId = 2
  /\ m_blas.geometries[3].geometryType = "eAabbs"
  /\ m_rtPipeline = 2
  /\ HitGroupOf(1).type = "eProceduralHitGroup"

\* the instanceId of the implicit record differs from that of every mesh record
ImplicitIdDistinct(t, N) == \A i \in 1..N : t[i].instanceId # t[N + 1].instanceId

\* C13: for any B batches, N mesh instances and a non-empty implicit
\* set, the implicit record's instanceId, the recorded blasId B, differs from
\* the instanceId of every mesh instance.
C13_InstanceIdsDistinct ==
  (m_tlas # NULL_HANDLE /\ Built(m_blas) /\ implicitObj.objImpl > 0
     /\ m_tlasInstances.instances[Len(instances) + 1].instanceId = Len(models))
    => ImplicitIdDistinct(m_tlasInstances.instances, Len(instances))

\* What the code gives for C13: in a TLAS built after createBottomLevelAS, with
\* a non-empty implicit set, mesh instance i has instanceId i, the implicit
\* record has instanceId B, and the two differ for every i exactly when N <= B.
C13_InstanceIdsOfCode ==
  [][(m_tlas' # m_tlas /\ Built(m_blas) /\ implicitObj.objImpl > 0) =>
       LET t == m_tlasInstances'.instances
           N == Len(instances)
           B == Len(models)
       IN  /\ \A i \in 1..N : t[i].instanceId = i - 1
           /\ t[N + 1].instanceId = B
           /\ ImplicitIdDistinct(t, N) <=> N <= B]_vars

\* the colliding case: one batch instanced twice: the implicit record and the second
\* mesh instance both carry instanceId 1
C13_Collision ==
  /\ Built(m_blas)
  /\ m_tlas # NULL_HANDLE
  /\ Len(models) = 1
  /\ Len(instances) = 2
  /\ implicitObj.objImpl > 0
  /\ m_tlasInstances.instances[3].instanceId = 1
  /\ m_tlasInstances.instances[2].instanceId = 1

====
